---- MODULE Spec2Model ----
(***************************************************************************)
(* A model of the Tencent CLS docker log driver's logger: the Log / enqueue *)
(* / worker / Close protocol of src/logger.go (buffered logger with an      *)
(* immediate and a batching worker) and of src/unnamed/part_001 (the        *)
(* logger that sends synchronously and closes its client in Close).         *)
(*                                                                         *)
(* Go channels are modelled by what they do: l.closed is a flag that only   *)
(* ever becomes TRUE (close), l.buffer is a FIFO sequence with a capacity   *)
(* and a closed flag; a send on a closed channel panics, a select picks     *)
(* any one of its ready cases. A panic is not recovered anywhere in the     *)
(* source, so it ends the process: no step follows it.                      *)
(***************************************************************************)
EXTENDS Integers, Sequences, FiniteSets, TLC

\* ---------------------------------------------------------------- bounds
MaxLogs == 2
MaxCloses == 2
MaxCapacity == 2
MaxChars == 3
MaxPieces == 3
MaxChunks == 5
MaxTextLen == 5
MaxAppends == 4

\* ------------------------------------------------------------- constants
DefaultMaxBufferSize == 1000000

Callers == {"c1", "c2"}
NoOne == "none"
NL == "\n"
Lines == {<<"a">>, <<"b", "c", "d", "e">>}
GroupIDs == {"g"}

Nil == "nil"
ErrLoggerClosed == "logger is closed"
ErrEnqueueFailed == "failed to enqueue message after dropping oldest"
ErrSendFailed == "failed to send message"

\* logger.Message: Line and PLogMetaData (<<>> is the nil pointer). The
\* fragments of a group are "a" for a non-terminal and "b" for the terminal one.
NoMeta == <<>>
Records ==
    [Line : Lines, PLogMetaData : {NoMeta}]
    \cup {[Line |-> <<"a">>, PLogMetaData |-> <<[ID |-> g, Last |-> FALSE]>>] :
              g \in GroupIDs}
    \cup {[Line |-> <<"b">>, PLogMetaData |-> <<[ID |-> g, Last |-> TRUE]>>] :
              g \in GroupIDs}
NoRecord == [Line |-> <<>>, PLogMetaData |-> NoMeta]
NoMsg == [id |-> 0, text |-> <<>>]
NoEvict == [stage |-> "none", before |-> <<>>, msg |-> NoMsg]

VARIABLES
    cfg,            \* loggerConfig and the options given to NewTencentCLSLogger
    fmt,            \* l.formatter and how newMessageFormatter made it
    closed,         \* l.closed is closed
    buffer,         \* contents of the channel l.buffer
    bufferClosed,   \* l.buffer is closed
    mu,             \* holder of l.mu
    logs,           \* partialLogBuffer.logs: group id -> accumulated line
    bmu,            \* holder of partialLogBuffer.mu
    pc,             \* position of every caller
    local,          \* locals of every caller's current call
    wpc,            \* position of the worker goroutine
    wlog,           \* the message the worker holds
    batch,          \* runBatching's batch buffer
    batchRuneCount, \* runBatching's batchRuneCount
    batchIds,       \* history: ids of the messages in batch
    sent,           \* history: texts passed to client.SendMessage
    clientClosed,   \* history: number of client.Close() calls
    hist,           \* history of calls, accepted and evicted messages
    panic           \* "" or the message of the panic that ended the process

vars == <<cfg, fmt, closed, buffer, bufferClosed, mu, logs, bmu, pc, local, wpc, wlog,
          batch, batchRuneCount, batchIds, sent, clientClosed, hist, panic>>

workerVars == <<wpc, wlog, batch, batchRuneCount, batchIds, sent>>

\* ---------------------------------------------------------------- helpers
Min(a, b) == IF a < b THEN a ELSE b

Last(s) == s[Len(s)]

Front(s) == SubSeq(s, 1, Len(s) - 1)

RECURSIVE Flatten(_)
Flatten(ss) == IF ss = <<>> THEN <<>> ELSE Head(ss) \o Flatten(Tail(ss))

Range(s) == {s[i] : i \in 1..Len(s)}

IdsOf(q) == [i \in 1..Len(q) |-> q[i].id]

SentIds == Flatten([i \in 1..Len(sent) |-> sent[i].ids])

Alive == panic = ""

\* ------------------------------------------------------------- formatter
\* A string of the formatter is a sequence of symbols: the delimiters "{" and
\* "}" and pieces of text; a sequence stands for the concatenation of its
\* symbols.
ErrUnknownTag == "unknown tag"
ErrNoEndTag == "Cannot find end tag"

\* defaultLoggerConfig.Template: "{log}"
Template == <<"{", "log", "}">>

\* the static context: ContainerDetails
Details == [ContainerID |-> <<"0123456789ab", "cdef">>,
            ContainerName |-> <<"web-1">>,
            ContainerImageID |-> <<"ba9876543210", "fedc">>,
            ContainerImageName |-> <<"nginx">>,
            DaemonName |-> <<"docker">>]

\* ContainerDetails.ID(), Name(), ImageID(), ImageName()
ID(d) == <<Head(d.ContainerID)>>

Name(d) == d.ContainerName

ImageID(d) == <<Head(d.ContainerImageID)>>

ImageName(d) == d.ContainerImageName

\* msg.Timestamp.UTC().Format(time.RFC3339), for a time in seconds
RFC3339(ts) == <<"1970-01-01T00:00:0", IF ts = 0 THEN "0" ELSE "1", "Z">>

IndexOf(s, c) == IF \E i \in 1..Len(s) : s[i] = c
                 THEN CHOOSE i \in 1..Len(s) : s[i] = c /\ \A j \in 1..(i - 1) : s[j] # c
                 ELSE 0

\* fasttemplate.NewTemplate(template, "{", "}"): the texts and the tags of the
\* template; a start tag without an end tag is an error
RECURSIVE NewTemplate(_)
NewTemplate(s) ==
    LET i == IndexOf(s, "{")
        after == SubSeq(s, i + 1, Len(s))
        j == IndexOf(after, "}")
        text == IF i > 1 THEN <<[kind |-> "text", val |-> SubSeq(s, 1, i - 1)]>>
                ELSE <<>>
        rest == NewTemplate(SubSeq(after, j + 1, Len(after)))
    IN  IF i = 0
        THEN [parts |-> IF s = <<>> THEN <<>> ELSE <<[kind |-> "text", val |-> s]>>,
              err |-> Nil]
        ELSE IF j = 0
        THEN [parts |-> <<>>, err |-> ErrNoEndTag]
        ELSE [parts |-> text \o <<[kind |-> "tag", val |-> SubSeq(after, 1, j - 1)]>>
                             \o rest.parts,
              err |-> rest.err]

\* mutant of tagFunc: container_id gives the full container id
tagFuncFullID(f, msg, tag) ==
    CASE tag = <<"log">> -> [out |-> msg.Line, err |-> Nil]
      [] tag = <<"timestamp">> -> [out |-> RFC3339(msg.Timestamp), err |-> Nil]
      [] tag = <<"container_id">> -> [out |-> f.containerDetails.ContainerID, err |-> Nil]
      [] tag = <<"container_full_id">> ->
            [out |-> f.containerDetails.ContainerID, err |-> Nil]
      [] tag = <<"container_name">> -> [out |-> Name(f.containerDetails), err |-> Nil]
      [] tag = <<"image_id">> -> [out |-> ImageID(f.containerDetails), err |-> Nil]
      [] tag = <<"image_full_id">> ->
            [out |-> f.containerDetails.ContainerImageID, err |-> Nil]
      [] tag = <<"image_name">> -> [out |-> ImageName(f.containerDetails), err |-> Nil]
      [] tag = <<"daemon_name">> -> [out |-> f.containerDetails.DaemonName, err |-> Nil]
      [] OTHER -> IF tag \in DOMAIN f.attrs
                  THEN [out |-> f.attrs[tag], err |-> Nil]
                  ELSE [out |-> <<>>, err |-> ErrUnknownTag]

\* messageFormatter.tagFunc(msg), called with a tag: what it writes, and its error
tagFunc(f, msg, tag) ==
    CASE tag = <<"log">> -> [out |-> msg.Line, err |-> Nil]
      [] tag = <<"timestamp">> -> [out |-> RFC3339(msg.Timestamp), err |-> Nil]
      [] tag = <<"container_id">> -> [out |-> ID(f.containerDetails), err |-> Nil]
      [] tag = <<"container_full_id">> ->
            [out |-> f.containerDetails.ContainerID, err |-> Nil]
      [] tag = <<"container_name">> -> [out |-> Name(f.containerDetails), err |-> Nil]
      [] tag = <<"image_id">> -> [out |-> ImageID(f.containerDetails), err |-> Nil]
      [] tag = <<"image_full_id">> ->
            [out |-> f.containerDetails.ContainerImageID, err |-> Nil]
      [] tag = <<"image_name">> -> [out |-> ImageName(f.containerDetails), err |-> Nil]
      [] tag = <<"daemon_name">> -> [out |-> f.containerDetails.DaemonName, err |-> Nil]
      [] OTHER -> IF tag \in DOMAIN f.attrs
                  THEN [out |-> f.attrs[tag], err |-> Nil]
                  ELSE [out |-> <<>>, err |-> ErrUnknownTag]

\* Template.ExecuteFuncStringWithErr: the texts as they are and every tag
\* replaced by what the tag function writes; it stops at the first error
RECURSIVE ExecuteFuncStringWithErr(_, _, _)
ExecuteFuncStringWithErr(parts, f, msg) ==
    IF parts = <<>> THEN [out |-> <<>>, err |-> Nil]
    ELSE LET rest == ExecuteFuncStringWithErr(Tail(parts), f, msg)
             v == tagFunc(f, msg, Head(parts).val)
         IN  IF Head(parts).kind = "text"
             THEN [out |-> Head(parts).val \o rest.out, err |-> rest.err]
             ELSE IF v.err # Nil
             THEN [out |-> <<>>, err |-> v.err]
             ELSE [out |-> v.out \o rest.out, err |-> rest.err]

\* Template.ExecuteFuncString: the same, but an error of the tag function is a panic
ExecuteFuncString(parts, f, msg) ==
    LET r == ExecuteFuncStringWithErr(parts, f, msg)
    IN  [out |-> r.out, panic |-> r.err # Nil]

\* messageFormatter.Format
Format(f, msg) == ExecuteFuncString(f.template, f, msg)

\* mutant of validateTemplate: the dry run is left out
validateTemplateSkipped(f) == Nil

\* messageFormatter.validateTemplate: a dry run on a synthetic record
validateTemplate(f) ==
    ExecuteFuncStringWithErr(f.template, f,
        [Line |-> <<"validate">>, Timestamp |-> 0]).err

\* newMessageFormatter: <<formatter>> and nil, or <<>> (nil) and the error
newMessageFormatter(containerDetails, attrs, template) ==
    LET t == NewTemplate(template)
        formatter == [template |-> t.parts, containerDetails |-> containerDetails,
                      attrs |-> attrs]
    IN  IF t.err # Nil THEN [f |-> <<>>, err |-> t.err]
        ELSE IF validateTemplate(formatter) # Nil
        THEN [f |-> <<>>, err |-> validateTemplate(formatter)]
        ELSE [f |-> <<formatter>>, err |-> Nil]

\* the record Log gives to the formatter; the pipeline does not read its time
Message(line) == [Line |-> line, Timestamp |-> 0]

NoAttrs == [t \in {} |-> <<>>]

\* the formatter before newMessageFormatter was called, and after it; pieces
\* is history: the pieces the template string was written from
NewFmt(pieces, attrs) ==
    [pieces |-> pieces, template |-> Flatten(pieces), attrs |-> attrs,
     state |-> "new", f |-> <<>>,
     err |-> Nil, called |-> FALSE, msg |-> Message(<<>>), out |-> <<>>,
     panic |-> FALSE]

Constructed(x) ==
    LET r == newMessageFormatter(Details, x.attrs, x.template)
    IN  [x EXCEPT !.state = IF r.err = Nil THEN "ready" ELSE "failed",
                  !.f = r.f, !.err = r.err]

\* mutant of FilterMatch: every record matches
FilterMatchAlways(re, line) == TRUE

\* cfg.FilterRegex.Match(log.Line) for the pattern of one literal rune: the
\* pattern is searched anywhere in the line
FilterMatch(re, line) == \E i \in 1..Len(line) : line[i] = re

\* ------------------------------------------------------------ reassembler
\* mutant of partialLogBufferAppend: the fragment is put in front of the
\* accumulated line
partialLogBufferPrepend(tbl, log) ==
    LET meta == log.PLogMetaData[1]
        plog == IF meta.ID \in DOMAIN tbl THEN tbl[meta.ID] ELSE <<>>
        line == log.Line \o plog
    IN  IF meta.Last
        THEN [logs |-> [g \in DOMAIN tbl \ {meta.ID} |-> tbl[g]],
              line |-> line, meta |-> NoMeta, last |-> TRUE]
        ELSE [logs |-> [g \in DOMAIN tbl \cup {meta.ID} |->
                            IF g = meta.ID THEN line ELSE tbl[g]],
              line |-> <<>>, meta |-> NoMeta, last |-> FALSE]

\* mutant of partialLogBufferAppend: every group uses one key of the table
partialLogBufferOneKey(tbl, log) ==
    LET meta == log.PLogMetaData[1]
        key == "g"
        plog == IF key \in DOMAIN tbl THEN tbl[key] ELSE <<>>
        line == plog \o log.Line
    IN  IF meta.Last
        THEN [logs |-> [g \in DOMAIN tbl \ {key} |-> tbl[g]],
              line |-> line, meta |-> NoMeta, last |-> TRUE]
        ELSE [logs |-> [g \in DOMAIN tbl \cup {key} |->
                            IF g = key THEN line ELSE tbl[g]],
              line |-> <<>>, meta |-> NoMeta, last |-> FALSE]

\* partialLogBuffer.Append of a record with PLogMetaData set: the table it
\* leaves, and the line and the PLogMetaData of the record it returns (the
\* table's record has its PLogMetaData set to nil when it is created)
partialLogBufferAppend(tbl, log) ==
    LET meta == log.PLogMetaData[1]
        plog == IF meta.ID \in DOMAIN tbl THEN tbl[meta.ID] ELSE <<>>
        line == plog \o log.Line
    IN  IF meta.Last
        THEN [logs |-> [g \in DOMAIN tbl \ {meta.ID} |-> tbl[g]],
              line |-> line, meta |-> NoMeta, last |-> TRUE]
        ELSE [logs |-> [g \in DOMAIN tbl \cup {meta.ID} |->
                            IF g = meta.ID THEN line ELSE tbl[g]],
              line |-> <<>>, meta |-> NoMeta, last |-> FALSE]

\* ------------------------------------------------------------------ Init
\* NewTencentCLSLogger: the buffer is unbuffered when cfg.MaxBufferSize <= 0,
\* and has the capacity given by WithBufferCapacity otherwise
QueueModes == {[MaxBufferSize |-> 0, capacity |-> 0]}
              \cup {[MaxBufferSize |-> DefaultMaxBufferSize, capacity |-> c] :
                        c \in 1..MaxCapacity}

\* the patterns of cfg.FilterRegex
FilterPatterns == {"b", "c"}

Configs ==
    {[impl |-> "queue", MaxBufferSize |-> q.MaxBufferSize, capacity |-> q.capacity,
      BatchEnabled |-> FALSE, FilterRegex |-> <<>>, Template |-> Template,
      client |-> "reliable", maxLogMessageChars |-> MaxChars] : q \in QueueModes}
    \cup
    {[impl |-> "queue", MaxBufferSize |-> q.MaxBufferSize, capacity |-> q.capacity,
      BatchEnabled |-> TRUE, FilterRegex |-> <<>>, Template |-> Template,
      client |-> "reliable", maxLogMessageChars |-> MaxChars] : q \in QueueModes}
    \cup
    {[impl |-> "sync", MaxBufferSize |-> DefaultMaxBufferSize, capacity |-> 0,
      BatchEnabled |-> FALSE, FilterRegex |-> <<>>, Template |-> Template,
      client |-> "reliable", maxLogMessageChars |-> 0]}
    \cup
    {[impl |-> "queue", MaxBufferSize |-> DefaultMaxBufferSize, capacity |-> 1,
      BatchEnabled |-> FALSE, FilterRegex |-> <<re>>, Template |-> Template,
      client |-> "reliable", maxLogMessageChars |-> MaxChars] : re \in FilterPatterns}
    \cup
    {[impl |-> "queue", MaxBufferSize |-> DefaultMaxBufferSize, capacity |-> 1,
      BatchEnabled |-> b, FilterRegex |-> <<>>, Template |-> Template,
      client |-> "failing", maxLogMessageChars |-> MaxChars] : b \in BOOLEAN}

\* the locals of a call: the record after  *log = *assembledLog, the runes Log
\* still has to enqueue, the message enqueue was called with, and whether the
\* call began after a Close returned; chunks is history: the texts the call
\* has passed to enqueue so far
InitLocal == [log |-> NoRecord, runes |-> <<>>, msg |-> NoMsg, late |-> FALSE,
              chunks |-> <<>>]

\* what Append last returned; none yet
NoResult == [line |-> <<>>, last |-> FALSE, n |-> 0]

\* the logger as NewTencentCLSLogger returns it; groups are the group ids
\* the history keeps fragments for
InitLoggerFor(groups) ==
    /\ closed = FALSE
    /\ buffer = <<>>
    /\ bufferClosed = FALSE
    /\ mu = NoOne
    /\ logs = [g \in {} |-> <<>>]
    /\ bmu = NoOne
    /\ pc = [p \in Callers |-> "idle"]
    /\ local = [p \in Callers |-> InitLocal]
    /\ wpc = IF cfg.impl = "queue" THEN "select" ELSE "none"
    /\ wlog = NoMsg
    /\ batch = <<>>
    /\ batchRuneCount = 0
    /\ batchIds = <<>>
    /\ sent = <<>>
    /\ clientClosed = 0
    /\ hist = [nlogs |-> 0, ncloses |-> 0, enqSeq |-> 0, accepted |-> <<>>,
               evicted |-> {}, atClose |-> 0, closeReturned |-> FALSE, closedCloses |-> 0,
               bufferCloses |-> 0, logResults |-> {}, lateResults |-> {},
               closeResults |-> {}, evict |-> NoEvict,
               nappends |-> [g \in groups |-> 0],
               frags |-> [g \in groups |-> <<>>],
               fragLast |-> [g \in groups |-> FALSE],
               filter |-> [n |-> 0, line |-> <<>>],
               appendResult |-> NoResult]
    /\ panic = ""

InitLogger == InitLoggerFor(GroupIDs)

Init ==
    /\ cfg \in Configs
    /\ fmt = Constructed(NewFmt(<<cfg.Template>>, NoAttrs))
    /\ InitLogger

\* ------------------------------------------------------------ Log (caller)
\* mutant of isClosed: the closed signal is never seen
isClosedNever == FALSE

isClosed == closed

Panic(msg) ==
    /\ panic' = msg
    /\ UNCHANGED <<cfg, fmt, closed, buffer, bufferClosed, mu, logs, bmu, pc, local,
                   workerVars, clientClosed, hist>>

\* history: a Log call of caller p returned r
LogReturned(h, l, r) ==
    [h EXCEPT !.logResults = @ \cup {r},
              !.lateResults = IF l.late THEN @ \cup {r} ELSE @]

\* history: Append was called with the fragment rec. frags is the sequence of
\* the payloads given for the group since its last terminal fragment.
Appended(h, rec) ==
    LET meta == rec.PLogMetaData[1]
        g == meta.ID
    IN  [h EXCEPT !.nappends[g] = @ + 1,
                  !.frags[g] = IF h.fragLast[g] THEN <<rec.Line>>
                               ELSE Append(@, rec.Line),
                  !.fragLast[g] = meta.Last]

\* history: the filter was applied to the line
Filtered(h, line) == [h EXCEPT !.filter = [n |-> @.n + 1, line |-> line]]

\* mutant of EnqueuePC: the mode test is  cfg.MaxBufferSize < 0
EnqueuePCStrict == IF cfg.MaxBufferSize < 0 THEN "enq_send" ELSE "enq_lock"

\* where l.enqueue starts: the blocking send, or l.mu.Lock()
EnqueuePC == IF cfg.MaxBufferSize <= 0 THEN "enq_send" ELSE "enq_lock"

\* mutant of ChunkEnd: a chunk takes one rune more than the maximum
ChunkEndWide(runes) == Min(cfg.maxLogMessageChars + 1, Len(runes))

\* Log's split: end, the length of the next chunk
ChunkEnd(runes) == IF Len(runes) < cfg.maxLogMessageChars
                   THEN Len(runes) ELSE cfg.maxLogMessageChars

\* mutant of SplitNeeded: Log never splits
SplitNeverNeeded(text) == FALSE

\* Log's test  utf8.RuneCountInString(text) > l.maxLogMessageChars ; part_001
\* has no split
SplitNeeded(text) == cfg.impl = "queue" /\ Len(text) > cfg.maxLogMessageChars

\* the runtime panic of  runes[:end]  with a negative end
ErrSliceBounds == "slice bounds out of range"

\* Log, from its first statement to its first call of enqueue (part_001: to
\* l.send). The reassembler's table is the only shared state it touches
\* after the isClosed check.
LogStart(p, rec) ==
    /\ Alive
    /\ pc[p] = "idle"
    /\ hist.nlogs < MaxLogs
    /\ LET l0 == [InitLocal EXCEPT !.late = hist.closeReturned]
           h1 == [hist EXCEPT !.nlogs = @ + 1]
           h2 == IF rec.PLogMetaData # NoMeta /\ ~isClosed
                 THEN Appended(h1, rec) ELSE h1
           app == IF rec.PLogMetaData # NoMeta
                  THEN partialLogBufferAppend(logs, rec)
                  ELSE [logs |-> logs, line |-> rec.Line,
                        meta |-> rec.PLogMetaData, last |-> TRUE]
           h0 == IF cfg.FilterRegex # <<>> /\ ~isClosed /\ app.last
                 THEN Filtered(h2, app.line) ELSE h2
           text == Format(fmt.f[1], Message(app.line)).out
           split == SplitNeeded(text)
           passes == app.last /\ (cfg.FilterRegex # <<>>
                                    => FilterMatch(cfg.FilterRegex[1], app.line))
           first == IF split THEN SubSeq(text, 1, ChunkEnd(text)) ELSE text
           rest == IF split THEN SubSeq(text, ChunkEnd(text) + 1, Len(text)) ELSE <<>>
       IN  IF isClosed
           THEN /\ hist' = LogReturned(h0, l0, ErrLoggerClosed)
                /\ UNCHANGED <<pc, local, logs, panic>>
           ELSE /\ logs' = app.logs
                /\ IF ~passes \/ (split /\ Len(text) = 0)
                   THEN /\ hist' = LogReturned(h0, l0, Nil)
                        /\ UNCHANGED <<pc, local, panic>>
                   ELSE IF split /\ ChunkEnd(text) < 0
                   THEN /\ panic' = ErrSliceBounds
                        /\ hist' = h0
                        /\ UNCHANGED <<pc, local>>
                   ELSE /\ hist' = [h0 EXCEPT !.enqSeq = @ + 1]
                        /\ panic' = panic
                        /\ local' = [local EXCEPT ![p] =
                               [l0 EXCEPT !.log = [Line |-> app.line,
                                                   PLogMetaData |-> app.meta],
                                          !.msg = [id |-> hist.enqSeq + 1,
                                                   text |-> first],
                                          !.runes = rest,
                                          !.chunks = <<first>>]]
                        /\ pc' = [pc EXCEPT ![p] =
                               IF cfg.impl = "sync" THEN "sync_send" ELSE EnqueuePC]
    /\ UNCHANGED <<cfg, fmt, closed, buffer, bufferClosed, mu, bmu, workerVars,
                   clientClosed>>

\* ---------------------------------------------------------------- enqueue
\* l.enqueue returned err to Log, with history h: Log returns err, or returns
\* nil after the last chunk, or calls enqueue with the next chunk
EnqueueReturns(p, err, h) ==
    LET runes == local[p].runes
    IN  IF err = Nil /\ Len(runes) > 0
        THEN /\ Len(local[p].chunks) < MaxChunks
             /\ local' = [local EXCEPT ![p] =
                    [@ EXCEPT !.msg = [id |-> h.enqSeq + 1,
                                       text |-> SubSeq(runes, 1, ChunkEnd(runes))],
                              !.runes = SubSeq(runes, ChunkEnd(runes) + 1, Len(runes)),
                              !.chunks = Append(@, SubSeq(runes, 1, ChunkEnd(runes)))]]
             /\ pc' = [pc EXCEPT ![p] = EnqueuePC]
             /\ hist' = [h EXCEPT !.enqSeq = @ + 1]
        ELSE /\ local' = [local EXCEPT ![p] = InitLocal]
             /\ pc' = [pc EXCEPT ![p] = "idle"]
             /\ hist' = LogReturned(h, local[p], err)

\* the worker is blocked in a receive on l.buffer
WorkerReceiving == wpc \in {"select", "drain"}

\* where the worker goes with a message it received
WorkerGot == IF wpc = "select"
             THEN (IF cfg.BatchEnabled THEN "add" ELSE "send")
             ELSE (IF cfg.BatchEnabled THEN "drain_add" ELSE "drain_send")

\* enqueue with cfg.MaxBufferSize <= 0:  l.buffer <- log  on the unbuffered
\* channel hands the message to the receiving worker
EnqueueBlockingSend(p) ==
    /\ Alive
    /\ pc[p] = "enq_send"
    /\ ~bufferClosed
    /\ WorkerReceiving
    /\ wlog' = local[p].msg
    /\ wpc' = WorkerGot
    /\ EnqueueReturns(p, Nil, [hist EXCEPT !.accepted = Append(@, local[p].msg)])
    /\ UNCHANGED <<cfg, fmt, closed, buffer, bufferClosed, mu, logs, bmu, batch,
                   batchRuneCount, batchIds, sent, clientClosed, panic>>

\* l.buffer <- log  panics when the channel is closed, also when it is closed
\* while the send is blocked
EnqueueBlockingPanic(p) ==
    /\ Alive
    /\ pc[p] = "enq_send"
    /\ bufferClosed
    /\ Panic("send on closed channel")

\* the cases of  select { case l.buffer <- log: / case <-l.closed: / default: }
\* that can proceed; the select takes any one of them, and its default only
\* when none can. A send on a closed channel can proceed: it panics.
SendReady == bufferClosed \/ Len(buffer) < cfg.capacity

SelectCases == LET ready == (IF SendReady THEN {"send"} ELSE {})
                            \cup (IF closed THEN {"closed"} ELSE {})
               IN  IF ready = {} THEN {"default"} ELSE ready

\* case l.buffer <- log: return nil (and the deferred l.mu.Unlock())
SelectSend(p) ==
    IF bufferClosed
    THEN Panic("send on closed channel")
    ELSE /\ buffer' = Append(buffer, local[p].msg)
         /\ mu' = NoOne
         /\ EnqueueReturns(p, Nil,
                [hist EXCEPT !.accepted = Append(@, local[p].msg),
                             !.evict = IF @.stage = "pending"
                                       THEN [@ EXCEPT !.stage = "done"]
                                       ELSE NoEvict])
         /\ UNCHANGED <<cfg, fmt, closed, bufferClosed, logs, bmu, workerVars,
                        clientClosed, panic>>

\* a case that returns err without touching the channel
SelectFail(p, err) ==
    /\ mu' = NoOne
    /\ EnqueueReturns(p, err, [hist EXCEPT !.evict = NoEvict])
    /\ UNCHANGED <<cfg, fmt, closed, buffer, bufferClosed, logs, bmu, workerVars,
                   clientClosed, panic>>

\* enqueue with cfg.MaxBufferSize > 0: l.mu.Lock() and the first select; its
\* default goes on, holding l.mu, to drop the oldest message
EnqueueSelect(p) ==
    /\ Alive
    /\ pc[p] = "enq_lock"
    /\ mu = NoOne
    /\ \E c \in SelectCases :
          CASE c = "send" -> SelectSend(p)
            [] c = "closed" -> SelectFail(p, ErrLoggerClosed)
            [] c = "default" ->
                  /\ mu' = p
                  /\ pc' = [pc EXCEPT ![p] = "enq_drop"]
                  /\ hist' = [hist EXCEPT !.evict =
                         [stage |-> "pending", before |-> buffer,
                          msg |-> local[p].msg]]
                  /\ UNCHANGED <<cfg, fmt, closed, buffer, bufferClosed, logs, bmu,
                                 local, workerVars, clientClosed, panic>>

\* mutant of DropOldest: nothing is dropped
DropNothing(q) == q

\* mutant of DropOldest: the newest message is dropped
DropNewest(q) == IF q # <<>> THEN Front(q) ELSE q

\* mutant of DropOldest: the two oldest messages are dropped
DropTwoOldest(q) == IF Len(q) >= 2 THEN Tail(Tail(q)) ELSE <<>>

\* what  select { case <-l.buffer: / default: }  leaves in the channel
DropOldest(q) == IF q # <<>> THEN Tail(q) ELSE q

\* the second select: drop the oldest message, or nothing when there is none
EnqueueDrop(p) ==
    /\ Alive
    /\ pc[p] = "enq_drop"
    /\ buffer' = DropOldest(buffer)
    /\ hist' = [hist EXCEPT !.evicted = @ \cup (Range(IdsOf(buffer)) \
                                                 Range(IdsOf(buffer')))]
    /\ pc' = [pc EXCEPT ![p] = "enq_retry"]
    /\ UNCHANGED <<cfg, fmt, closed, bufferClosed, mu, logs, bmu, local, workerVars,
                   clientClosed, panic>>

\* the third select: the retry of the insert
EnqueueRetry(p) ==
    /\ Alive
    /\ pc[p] = "enq_retry"
    /\ \E c \in SelectCases :
          CASE c = "send" -> SelectSend(p)
            [] c = "closed" -> SelectFail(p, ErrLoggerClosed)
            [] c = "default" -> SelectFail(p, ErrEnqueueFailed)

\* ------------------------------------------------------------------ worker
\* what client.SendMessage can return: a failing client fails any call or none
SendResults == IF cfg.client = "failing" THEN {Nil, ErrSendFailed} ELSE {Nil}

\* l.send(log): the text goes to client.SendMessage, which returns err; the
\* error is only logged
send(out, text, ids, err) ==
    Append(out, [text |-> text, ids |-> ids, afterClose |-> clientClosed > 0,
                 err |-> err])

\* mutant of Receive: the worker takes the newest message of the channel
ReceiveNewest(next) ==
    /\ buffer # <<>>
    /\ wlog' = Last(buffer)
    /\ buffer' = Front(buffer)
    /\ wpc' = next
    /\ hist' = [hist EXCEPT !.evict = NoEvict]

\* mutant of Receive: the message stays in the channel
ReceivePeek(next) ==
    /\ buffer # <<>>
    /\ wlog' = Head(buffer)
    /\ buffer' = buffer
    /\ wpc' = next
    /\ hist' = [hist EXCEPT !.evict = NoEvict]

\* a receive of the worker takes the oldest message of the channel
Receive(next) ==
    /\ buffer # <<>>
    /\ wlog' = Head(buffer)
    /\ buffer' = Tail(buffer)
    /\ wpc' = next
    /\ hist' = [hist EXCEPT !.evict = NoEvict]

\* the worker's select sees the shutdown: <-l.closed, or l.buffer closed and empty
SeesShutdown == closed \/ (bufferClosed /\ buffer = <<>>)

\* runImmediate, main loop: case log, ok := <-l.buffer
ImmediateReceive ==
    /\ Alive /\ ~cfg.BatchEnabled
    /\ wpc = "select"
    /\ Receive("send")
    /\ UNCHANGED <<cfg, fmt, closed, bufferClosed, mu, logs, bmu, pc, local, batch,
                   batchRuneCount, batchIds, sent, clientClosed, panic>>

\* runImmediate, main loop: l.send(log)
ImmediateSend ==
    /\ Alive /\ ~cfg.BatchEnabled
    /\ wpc = "send"
    /\ \E err \in SendResults : sent' = send(sent, wlog.text, <<wlog.id>>, err)
    /\ wlog' = NoMsg
    /\ wpc' = "select"
    /\ UNCHANGED <<cfg, fmt, closed, buffer, bufferClosed, mu, logs, bmu, pc, local,
                   batch, batchRuneCount, batchIds, clientClosed, hist, panic>>

\* mutant of ImmediateReturn: the worker returns without the deferred drain
ImmediateReturnNoDrain ==
    /\ Alive /\ ~cfg.BatchEnabled
    /\ wpc = "select"
    /\ closed \/ (bufferClosed /\ buffer = <<>>)
    /\ wpc' = "done"
    /\ UNCHANGED <<cfg, fmt, closed, buffer, bufferClosed, mu, logs, bmu, pc, local,
                   wlog, batch, batchRuneCount, batchIds, sent, clientClosed,
                   hist, panic>>

\* runImmediate, main loop: return (!ok, or case <-l.closed); drain is deferred
ImmediateReturn ==
    /\ Alive /\ ~cfg.BatchEnabled
    /\ wpc = "select"
    /\ SeesShutdown
    /\ wpc' = "drain"
    /\ UNCHANGED <<cfg, fmt, closed, buffer, bufferClosed, mu, logs, bmu, pc, local,
                   wlog, batch, batchRuneCount, batchIds, sent, clientClosed,
                   hist, panic>>

\* runImmediate, drain: for log := range l.buffer
ImmediateDrainReceive ==
    /\ Alive /\ ~cfg.BatchEnabled
    /\ wpc = "drain"
    /\ Receive("drain_send")
    /\ UNCHANGED <<cfg, fmt, closed, bufferClosed, mu, logs, bmu, pc, local, batch,
                   batchRuneCount, batchIds, sent, clientClosed, panic>>

\* runImmediate, drain: l.send(log)
ImmediateDrainSend ==
    /\ Alive /\ ~cfg.BatchEnabled
    /\ wpc = "drain_send"
    /\ \E err \in SendResults : sent' = send(sent, wlog.text, <<wlog.id>>, err)
    /\ wlog' = NoMsg
    /\ wpc' = "drain"
    /\ UNCHANGED <<cfg, fmt, closed, buffer, bufferClosed, mu, logs, bmu, pc, local,
                   batch, batchRuneCount, batchIds, clientClosed, hist, panic>>

\* the range loop of a drain ends (channel closed and empty); l.wg.Done()
WorkerDone ==
    /\ Alive
    /\ wpc = "drain"
    /\ bufferClosed /\ buffer = <<>>
    /\ wpc' = "done"
    /\ UNCHANGED <<cfg, fmt, closed, buffer, bufferClosed, mu, logs, bmu, pc, local,
                   wlog, batch, batchRuneCount, batchIds, sent, clientClosed,
                   hist, panic>>

\* mutant of flush: the batch is reset only when the send succeeded
flushKeepsFailed(w, err) ==
    IF Len(w.batch) = 0
    THEN w
    ELSE LET text == IF Last(w.batch) = NL THEN Front(w.batch) ELSE w.batch
         IN  IF err # Nil
             THEN [w EXCEPT !.sent = send(w.sent, text, w.batchIds, err)]
             ELSE [batch |-> <<>>, batchRuneCount |-> 0, batchIds |-> <<>>,
                   sent |-> send(w.sent, text, w.batchIds, err)]

\* mutant of flush: the running length is not set back to zero
flushKeepsCount(w, err) ==
    IF Len(w.batch) = 0
    THEN w
    ELSE LET text == IF Last(w.batch) = NL THEN Front(w.batch) ELSE w.batch
         IN  [batch |-> <<>>, batchRuneCount |-> w.batchRuneCount - 1,
              batchIds |-> <<>>,
              sent |-> send(w.sent, text, w.batchIds, err)]

\* mutant of flush: the test  batch.Len() == 0  is missing
flushAlways(w, err) ==
    LET text == IF Len(w.batch) > 0 /\ Last(w.batch) = NL
                THEN Front(w.batch) ELSE w.batch
    IN  [batch |-> <<>>, batchRuneCount |-> 0, batchIds |-> <<>>,
         sent |-> send(w.sent, text, w.batchIds, err)]

\* runBatching's closure flush, on the worker's state w; err is what
\* client.SendMessage returns if flush calls l.send
flush(w, err) ==
    IF Len(w.batch) = 0
    THEN w
    ELSE LET text == IF Last(w.batch) = NL THEN Front(w.batch) ELSE w.batch
         IN  [batch |-> <<>>, batchRuneCount |-> 0, batchIds |-> <<>>,
              sent |-> send(w.sent, text, w.batchIds, err)]

\* mutant of add: the size test is  batchRuneCount > l.maxLogMessageChars
addStrict(w, log, err) ==
    LET logLength == Len(log.text) + 1
        w2 == [batch |-> w.batch \o log.text \o <<NL>>,
               batchRuneCount |-> w.batchRuneCount + logLength,
               batchIds |-> Append(w.batchIds, log.id),
               sent |-> w.sent]
    IN  IF w2.batchRuneCount > cfg.maxLogMessageChars THEN flush(w2, err) ELSE w2

\* runBatching's closure add
add(w, log, err) ==
    LET logLength == Len(log.text) + 1
        w2 == [batch |-> w.batch \o log.text \o <<NL>>,
               batchRuneCount |-> w.batchRuneCount + logLength,
               batchIds |-> Append(w.batchIds, log.id),
               sent |-> w.sent]
    IN  IF w2.batchRuneCount >= cfg.maxLogMessageChars THEN flush(w2, err) ELSE w2

BatchState == [batch |-> batch, batchRuneCount |-> batchRuneCount,
               batchIds |-> batchIds, sent |-> sent]

SetBatchState(w) ==
    /\ batch' = w.batch
    /\ batchRuneCount' = w.batchRuneCount
    /\ batchIds' = w.batchIds
    /\ sent' = w.sent

\* runBatching, main loop: case log, ok := <-l.buffer
BatchReceive ==
    /\ Alive /\ cfg.BatchEnabled
    /\ wpc = "select"
    /\ Receive("add")
    /\ UNCHANGED <<cfg, fmt, closed, bufferClosed, mu, logs, bmu, pc, local, batch,
                   batchRuneCount, batchIds, sent, clientClosed, panic>>

\* runBatching, main loop: add(log)
BatchAdd ==
    /\ Alive /\ cfg.BatchEnabled
    /\ wpc = "add"
    /\ \E err \in SendResults : SetBatchState(add(BatchState, wlog, err))
    /\ wlog' = NoMsg
    /\ wpc' = "select"
    /\ UNCHANGED <<cfg, fmt, closed, buffer, bufferClosed, mu, logs, bmu, pc, local,
                   clientClosed, hist, panic>>

\* mutant of BatchTick: the ticker case does not flush
BatchTickIdle ==
    /\ Alive /\ cfg.BatchEnabled
    /\ wpc = "select"
    /\ UNCHANGED vars

\* runBatching, main loop: case <-ticker.C: flush()
BatchTick ==
    /\ Alive /\ cfg.BatchEnabled
    /\ wpc = "select"
    /\ \E err \in SendResults : SetBatchState(flush(BatchState, err))
    /\ UNCHANGED <<cfg, fmt, closed, buffer, bufferClosed, mu, logs, bmu, pc, local,
                   wpc, wlog, clientClosed, hist, panic>>

\* runBatching, main loop: return (!ok, or case <-l.closed)
BatchReturn ==
    /\ Alive /\ cfg.BatchEnabled
    /\ wpc = "select"
    /\ SeesShutdown
    /\ wpc' = "deferred_flush"
    /\ UNCHANGED <<cfg, fmt, closed, buffer, bufferClosed, mu, logs, bmu, pc, local,
                   wlog, batch, batchRuneCount, batchIds, sent, clientClosed,
                   hist, panic>>

\* runBatching, the deferred calls run last-in first-out: defer flush() was
\* deferred after defer drain(), so flush() runs first and drain() after it
BatchDeferredFlush ==
    /\ Alive /\ cfg.BatchEnabled
    /\ wpc = "deferred_flush"
    /\ \E err \in SendResults : SetBatchState(flush(BatchState, err))
    /\ wpc' = "drain"
    /\ UNCHANGED <<cfg, fmt, closed, buffer, bufferClosed, mu, logs, bmu, pc, local,
                   wlog, clientClosed, hist, panic>>

\* runBatching, drain: for log := range l.buffer
BatchDrainReceive ==
    /\ Alive /\ cfg.BatchEnabled
    /\ wpc = "drain"
    /\ Receive("drain_add")
    /\ UNCHANGED <<cfg, fmt, closed, bufferClosed, mu, logs, bmu, pc, local, batch,
                   batchRuneCount, batchIds, sent, clientClosed, panic>>

\* runBatching, drain: add(log)
BatchDrainAdd ==
    /\ Alive /\ cfg.BatchEnabled
    /\ wpc = "drain_add"
    /\ \E err \in SendResults : SetBatchState(add(BatchState, wlog, err))
    /\ wlog' = NoMsg
    /\ wpc' = "drain"
    /\ UNCHANGED <<cfg, fmt, closed, buffer, bufferClosed, mu, logs, bmu, pc, local,
                   clientClosed, hist, panic>>

\* ------------------------------------------------------------------- Close
\* Close returns nil; the deferred l.mu.Unlock()
CloseReturn(p, h) ==
    /\ mu' = NoOne
    /\ pc' = [pc EXCEPT ![p] = "idle"]
    /\ hist' = [h EXCEPT !.closeReturned = TRUE,
                         !.closeResults = @ \cup {Nil}]

\* mutant of CloseEnter: Close does not test l.isClosed()
CloseEnterNoCheck(p) ==
    /\ Alive
    /\ pc[p] = "idle"
    /\ hist.ncloses < MaxCloses
    /\ mu = NoOne
    /\ closed' = TRUE
    /\ mu' = p
    /\ hist' = [hist EXCEPT !.ncloses = @ + 1, !.closedCloses = @ + 1,
                            !.atClose = Len(hist.accepted)]
    /\ pc' = [pc EXCEPT ![p] = IF cfg.impl = "queue" THEN "close_buffer"
                                                     ELSE "close_client"]
    /\ UNCHANGED <<cfg, fmt, buffer, bufferClosed, logs, bmu, local, workerVars,
                   clientClosed, panic>>

\* Close: l.mu.Lock(); if l.isClosed() { return nil }; close(l.closed)
CloseEnter(p) ==
    /\ Alive
    /\ pc[p] = "idle"
    /\ hist.ncloses < MaxCloses
    /\ mu = NoOne
    /\ IF isClosed
       THEN /\ CloseReturn(p, [hist EXCEPT !.ncloses = @ + 1])
            /\ UNCHANGED closed
       ELSE /\ closed' = TRUE
            /\ mu' = p
            /\ hist' = [hist EXCEPT !.ncloses = @ + 1, !.closedCloses = @ + 1,
                                   !.atClose = Len(hist.accepted)]
            /\ pc' = [pc EXCEPT ![p] = IF cfg.impl = "queue" THEN "close_buffer"
                                                             ELSE "close_client"]
    /\ UNCHANGED <<cfg, fmt, buffer, bufferClosed, logs, bmu, local, workerVars,
                   clientClosed, panic>>

\* Close (logger.go): close(l.buffer)
CloseBuffer(p) ==
    /\ Alive
    /\ pc[p] = "close_buffer"
    /\ bufferClosed' = TRUE
    /\ hist' = [hist EXCEPT !.bufferCloses = @ + 1]
    /\ pc' = [pc EXCEPT ![p] = "close_wait"]
    /\ UNCHANGED <<cfg, fmt, closed, buffer, mu, logs, bmu, local, workerVars,
                   clientClosed, panic>>

\* mutant of CloseWait: Close returns without l.wg.Wait()
CloseNoWait(p) ==
    /\ Alive
    /\ pc[p] = "close_wait"
    /\ CloseReturn(p, hist)
    /\ UNCHANGED <<cfg, fmt, closed, buffer, bufferClosed, logs, bmu, local, workerVars,
                   clientClosed, panic>>

\* Close (logger.go): l.wg.Wait(); return nil
CloseWait(p) ==
    /\ Alive
    /\ pc[p] = "close_wait"
    /\ wpc = "done"
    /\ CloseReturn(p, hist)
    /\ UNCHANGED <<cfg, fmt, closed, buffer, bufferClosed, logs, bmu, local, workerVars,
                   clientClosed, panic>>

\* Close (part_001): l.client.Close(); return nil
CloseClient(p) ==
    /\ Alive
    /\ pc[p] = "close_client"
    /\ clientClosed' = clientClosed + 1
    /\ CloseReturn(p, hist)
    /\ UNCHANGED <<cfg, fmt, closed, buffer, bufferClosed, logs, bmu, local, workerVars,
                   panic>>

\* Log (part_001): l.send(text); return nil
SyncSend(p) ==
    /\ Alive
    /\ pc[p] = "sync_send"
    /\ \E err \in SendResults :
          sent' = send(sent, local[p].msg.text, <<local[p].msg.id>>, err)
    /\ pc' = [pc EXCEPT ![p] = "idle"]
    /\ local' = [local EXCEPT ![p] = InitLocal]
    /\ hist' = LogReturned(hist, local[p], Nil)
    /\ UNCHANGED <<cfg, fmt, closed, buffer, bufferClosed, mu, logs, bmu, wpc, wlog,
                   batch, batchRuneCount, batchIds, clientClosed, panic>>

\* ------------------------------------------------------------------- Next
Next ==
    \/ \E p \in Callers, rec \in Records : LogStart(p, rec)
    \/ \E p \in Callers : EnqueueBlockingSend(p)
    \/ \E p \in Callers : EnqueueBlockingPanic(p)
    \/ \E p \in Callers : EnqueueSelect(p)
    \/ \E p \in Callers : EnqueueDrop(p)
    \/ \E p \in Callers : EnqueueRetry(p)
    \/ \E p \in Callers : SyncSend(p)
    \/ \E p \in Callers : CloseEnter(p)
    \/ \E p \in Callers : CloseBuffer(p)
    \/ \E p \in Callers : CloseWait(p)
    \/ \E p \in Callers : CloseClient(p)
    \/ ImmediateReceive
    \/ ImmediateSend
    \/ ImmediateReturn
    \/ ImmediateDrainReceive
    \/ ImmediateDrainSend
    \/ BatchReceive
    \/ BatchAdd
    \/ BatchTick
    \/ BatchReturn
    \/ BatchDeferredFlush
    \/ BatchDrainReceive
    \/ BatchDrainAdd
    \/ WorkerDone

Spec == Init /\ [][Next]_vars

\* ------------------------------------------------- the message formatter
\* the pieces templates are made of, the attribute mappings (cfg.Attrs) and
\* the records given to Format
BuiltinTagNames == {"log", "timestamp", "container_id", "container_full_id",
                    "container_name", "image_id", "image_full_id", "image_name",
                    "daemon_name"}

Pieces == {<<"{", t, "}">> : t \in BuiltinTagNames \cup {"k", "nope"}}
          \cup {<<": ">>, <<"{">>, <<"}">>}

Templates == UNION {[1..n -> Pieces] : n \in 0..MaxPieces}

AttrMaps == {NoAttrs, [t \in {<<"k">>, <<"log">>} |-> <<"v">>]}

FormatMessages == [Line : {<<"hello">>, <<"x", "y">>}, Timestamp : {0, 1}]

InitFormatter ==
    /\ cfg \in {c \in Configs : c.impl = "sync"}
    /\ fmt \in {NewFmt(t, a) : t \in Templates, a \in AttrMaps}
    /\ InitLogger

\* NewTencentCLSLogger: newMessageFormatter(containerDetails, cfg.Attrs, cfg.Template)
NewMessageFormatter ==
    /\ fmt.state = "new"
    /\ fmt' = Constructed(fmt)
    /\ UNCHANGED <<cfg, closed, buffer, bufferClosed, mu, logs, bmu, pc, local,
                   workerVars, clientClosed, hist, panic>>

\* Log: text := l.formatter.Format(log), on a logger that was constructed
FormatRecord(msg) ==
    /\ fmt.state = "ready"
    /\ LET r == Format(fmt.f[1], msg)
       IN  fmt' = [fmt EXCEPT !.called = TRUE, !.msg = msg, !.out = r.out,
                              !.panic = r.panic]
    /\ UNCHANGED <<cfg, closed, buffer, bufferClosed, mu, logs, bmu, pc, local,
                   workerVars, clientClosed, hist, panic>>

NextFormatter ==
    \/ NewMessageFormatter
    \/ \E msg \in FormatMessages : FormatRecord(msg)

SpecFormatter == InitFormatter /\ [][NextFormatter]_vars

\* ------------------------------------------------- the batching pipeline
\* a logger constructed with cfg.BatchEnabled: go l.runBatching(); the queue
\* is the unbuffered one or has one slot, and the client does not fail
InitBatching ==
    /\ Init
    /\ cfg.impl = "queue" /\ cfg.BatchEnabled
    /\ cfg.capacity <= 1 /\ cfg.client = "reliable"

NextBatching ==
    \/ \E p \in Callers, rec \in Records : LogStart(p, rec)
    \/ \E p \in Callers : EnqueueBlockingSend(p)
    \/ \E p \in Callers : EnqueueBlockingPanic(p)
    \/ \E p \in Callers : EnqueueSelect(p)
    \/ \E p \in Callers : EnqueueDrop(p)
    \/ \E p \in Callers : EnqueueRetry(p)
    \/ \E p \in Callers : CloseEnter(p)
    \/ \E p \in Callers : CloseBuffer(p)
    \/ \E p \in Callers : CloseWait(p)
    \/ BatchReceive
    \/ BatchAdd
    \/ BatchTick
    \/ BatchReturn
    \/ BatchDeferredFlush
    \/ BatchDrainReceive
    \/ BatchDrainAdd
    \/ WorkerDone

\* the worker goroutine is scheduled whenever it can run, and the ticker of
\* runBatching fires every BatchFlushInterval: a worker that stays in its
\* select with a tick pending takes the ticker case. Callers are not obliged
\* to call.
WorkerFairness ==
    /\ WF_vars(BatchReceive)
    /\ WF_vars(BatchAdd)
    /\ WF_vars(BatchTick)
    /\ WF_vars(BatchReturn)
    /\ WF_vars(BatchDeferredFlush)
    /\ WF_vars(BatchDrainReceive)
    /\ WF_vars(BatchDrainAdd)
    /\ WF_vars(WorkerDone)

SpecBatching == InitBatching /\ [][NextBatching]_vars /\ WorkerFairness

\* ------------------------------------------------------ the reassembler
\* partialLogBuffer.Append called directly, by concurrent callers, with
\* fragments of two groups and with a record that has no PLogMetaData
FragmentGroups == {"g", "h"}

FragmentRecords ==
    {[Line |-> ln, PLogMetaData |-> <<[ID |-> g, Last |-> b]>>] :
        ln \in {<<"a">>, <<"b">>}, g \in FragmentGroups, b \in BOOLEAN}
    \cup {[Line |-> <<"a">>, PLogMetaData |-> NoMeta]}

ErrNotPartial == "log must be partial"

InitReassembler ==
    /\ cfg \in {c \in Configs : c.impl = "queue" /\ c.capacity = 0
                                 /\ ~c.BatchEnabled}
    /\ fmt = Constructed(NewFmt(<<cfg.Template>>, NoAttrs))
    /\ InitLoggerFor(FragmentGroups)

\* number of Append calls that took the lock
NumAppends == hist.appendResult.n +
              Cardinality({p \in Callers : pc[p] = "append_body"})

\* a caller calls Append with the record rec
AppendCall(p, rec) ==
    /\ Alive
    /\ pc[p] = "idle"
    /\ NumAppends + Cardinality({q \in Callers : pc[q] = "append"}) < MaxAppends
    /\ pc' = [pc EXCEPT ![p] = "append"]
    /\ local' = [local EXCEPT ![p] = [InitLocal EXCEPT !.log = rec]]
    /\ UNCHANGED <<cfg, fmt, closed, buffer, bufferClosed, mu, logs, bmu,
                   workerVars, clientClosed, hist, panic>>

\* mutant of AppendEnter: the lock is taken before the metadata is tested
AppendEnterLockFirst(p) ==
    /\ Alive
    /\ pc[p] = "append"
    /\ bmu = NoOne
    /\ bmu' = p
    /\ IF local[p].log.PLogMetaData = NoMeta
       THEN /\ panic' = ErrNotPartial
            /\ pc' = [pc EXCEPT ![p] = "panicked"]
       ELSE /\ pc' = [pc EXCEPT ![p] = "append_body"]
            /\ panic' = panic
    /\ UNCHANGED <<cfg, fmt, closed, buffer, bufferClosed, mu, logs, local,
                   workerVars, clientClosed, hist>>

\* Append:  if log.PLogMetaData == nil { panic(...) } ,  then  b.mu.Lock()
AppendEnter(p) ==
    /\ Alive
    /\ pc[p] = "append"
    /\ IF local[p].log.PLogMetaData = NoMeta
       THEN /\ panic' = ErrNotPartial
            /\ pc' = [pc EXCEPT ![p] = "panicked"]
            /\ bmu' = bmu
       ELSE /\ bmu = NoOne
            /\ bmu' = p
            /\ pc' = [pc EXCEPT ![p] = "append_body"]
            /\ panic' = panic
    /\ UNCHANGED <<cfg, fmt, closed, buffer, bufferClosed, mu, logs, local,
                   workerVars, clientClosed, hist>>

\* Append, under the lock, to its return and the deferred b.mu.Unlock()
AppendBody(p) ==
    /\ Alive
    /\ pc[p] = "append_body"
    /\ LET app == partialLogBufferAppend(logs, local[p].log)
       IN  /\ logs' = app.logs
           /\ hist' = [Appended(hist, local[p].log) EXCEPT
                          !.appendResult = [line |-> app.line, last |-> app.last,
                                            n |-> @.n + 1]]
    /\ bmu' = NoOne
    /\ pc' = [pc EXCEPT ![p] = "idle"]
    /\ local' = [local EXCEPT ![p] = InitLocal]
    /\ UNCHANGED <<cfg, fmt, closed, buffer, bufferClosed, mu, workerVars,
                   clientClosed, panic>>

NextReassembler ==
    \/ \E p \in Callers, rec \in FragmentRecords : AppendCall(p, rec)
    \/ \E p \in Callers : AppendEnter(p)
    \/ \E p \in Callers : AppendBody(p)

SpecReassembler == InitReassembler /\ [][NextReassembler]_vars

\* ------------------------------------------------------- the split of Log
\* the i-th rune of a formatted message
Rune(i) == <<"a", "b", "c", "d", "e", "f", "g", "h">>[((i - 1) % 8) + 1]

\* messages that are no fragments, with every rune count up to MaxTextLen
SplitRecords == {[Line |-> [i \in 1..n |-> Rune(i)], PLogMetaData |-> NoMeta] :
                    n \in 0..MaxTextLen}

\* a logger with runImmediate, the unbuffered queue or one slot, and every
\* value WithMaxLogMessageChars stores: it takes any int
SplitConfigs ==
    {[impl |-> "queue", MaxBufferSize |-> q.MaxBufferSize, capacity |-> q.capacity,
      BatchEnabled |-> FALSE, FilterRegex |-> <<>>, Template |-> Template,
      client |-> "reliable", maxLogMessageChars |-> maxLen] :
        q \in {m \in QueueModes : m.capacity <= 1}, maxLen \in -1..MaxChars}

InitSplit ==
    /\ cfg \in SplitConfigs
    /\ fmt = Constructed(NewFmt(<<cfg.Template>>, NoAttrs))
    /\ InitLogger

\* the one call of Log, with the record rec
SplitLog(rec) ==
    /\ hist.nlogs = 0
    /\ LogStart("c1", rec)

\* one caller logs one message; nobody closes
NextSplit ==
    \/ \E rec \in SplitRecords : SplitLog(rec)
    \/ EnqueueBlockingSend("c1")
    \/ EnqueueSelect("c1")
    \/ EnqueueDrop("c1")
    \/ EnqueueRetry("c1")
    \/ ImmediateReceive
    \/ ImmediateSend

SpecSplit == InitSplit /\ [][NextSplit]_vars

\* ------------------------------------------------------------ properties
AcceptedIds == IdsOf(hist.accepted)

\* the messages the worker has received so far, in the order it handled them
WorkerReceived == SentIds \o batchIds \o (IF wlog # NoMsg THEN <<wlog.id>> ELSE <<>>)

RECURSIVE IsSubsequence(_, _)
IsSubsequence(s, t) ==
    IF s = <<>> THEN TRUE
    ELSE IF t = <<>> THEN FALSE
    ELSE IF Head(s) = Head(t) THEN IsSubsequence(Tail(s), Tail(t))
    ELSE IsSubsequence(s, Tail(t))

\* a text cut at its separators
RECURSIVE SplitAtNL(_)
SplitAtNL(text) ==
    IF \A i \in 1..Len(text) : text[i] # NL THEN <<text>>
    ELSE LET k == CHOOSE i \in 1..Len(text) :
                      text[i] = NL /\ \A j \in 1..(i - 1) : text[j] # NL
         IN  <<SubSeq(text, 1, k - 1)>> \o SplitAtNL(SubSeq(text, k + 1, Len(text)))

TextOf(id) == (CHOOSE i \in 1..Len(hist.accepted) : hist.accepted[i].id = id)

Immediate == cfg.impl = "queue" /\ ~cfg.BatchEnabled

Batching == cfg.impl = "queue" /\ cfg.BatchEnabled

\* the messages whose enqueue returned success before Close() closed l.closed
AcceptedBeforeClose == {hist.accepted[i].id : i \in 1..hist.atClose}

\* every such message was passed to the sink, or was evicted
AllDelivered == \A id \in AcceptedBeforeClose :
                    id \in Range(SentIds) \/ id \in hist.evicted

\* C1 as stated: in Immediate mode, once a Close() has returned, every message
\* whose enqueue returned success has been passed to the sink's Send, and every
\* Log call that started after Close() returned got the closed error.
C1_DrainOnCloseAnyK ==
    (Immediate /\ hist.closeReturned) =>
        /\ AcceptedBeforeClose \subseteq Range(SentIds)
        /\ hist.lateResults \subseteq {ErrLoggerClosed}

\* C1 amended: in Immediate mode, once a Close() has returned, every message
\* whose enqueue returned success and that no later Enqueue evicted from the
\* full bounded queue has been passed to the sink's Send, and every Log call
\* that started after Close() returned got the closed error without going on.
C1_DrainOnClose ==
    (Immediate /\ hist.closeReturned) =>
        /\ AllDelivered
        /\ hist.lateResults \subseteq {ErrLoggerClosed}
        /\ \A p \in Callers : local[p].late => pc[p] = "idle"

C1_Witness ==
    /\ Immediate /\ hist.closeReturned
    /\ hist.atClose >= 2
    /\ AcceptedBeforeClose \subseteq Range(SentIds)
    /\ ErrLoggerClosed \in hist.lateResults

\* C2: in Batching mode, when the worker has stopped, every message that was
\* accepted into the queue (and not evicted by a later Enqueue) is contained
\* in some text passed to the sink: nothing buffered is discarded by shutdown.
C2_BatchDrainOnStop ==
    (Batching /\ wpc = "done") => AllDelivered

\* C3: in unbounded-blocking mode (capacity <= 0) an Enqueue never crashes
\* with a send on the closed channel, whether it is blocked when Close() shuts
\* the queue down or reaches the channel after the shutdown.
C3_BlockingEnqueueNeverPanics ==
    (cfg.impl = "queue" /\ cfg.MaxBufferSize <= 0) => panic = ""

\* C4: in bounded mode a Log call that passed its closed check and reaches
\* Enqueue after Close() closed the signal and the channel returns the closed
\* error: it never panics.
C4_BoundedEnqueueAfterCloseNeverPanics ==
    (cfg.impl = "queue" /\ cfg.MaxBufferSize > 0) => panic = ""

\* C5: a Log call on a pipeline that is already closed returns the closed
\* error and changes nothing: the assembly table, the queue, the worker, the
\* sink, the callers and the lock are as before the call.
C5_LogOnClosedTouchesNothing ==
    [][(closed /\ hist'.nlogs = hist.nlogs + 1) =>
          /\ hist'.logResults = hist.logResults \cup {ErrLoggerClosed}
          /\ hist'.enqSeq = hist.enqSeq
          /\ hist'.accepted = hist.accepted
          /\ UNCHANGED <<logs, buffer, bufferClosed, closed, mu, pc, local,
                         workerVars, clientClosed, panic>>]_vars

C5_Witness ==
    /\ closed
    /\ ErrLoggerClosed \in hist.logResults
    /\ DOMAIN logs # {}
    /\ cfg.impl = "queue"

C7_EndToEndFIFO ==
    cfg.impl = "queue" =>
        /\ IsSubsequence(SentIds, AcceptedIds)
        /\ \A i \in 1..Len(sent) :
              SplitAtNL(sent[i].text) =
                  [j \in 1..Len(sent[i].ids) |->
                      hist.accepted[TextOf(sent[i].ids[j])].text]

C7_Witness ==
    /\ Batching
    /\ hist.evicted # {}
    /\ wpc \in {"drain", "done"}
    /\ \E i \in 1..Len(sent) : Len(sent[i].ids) >= 2

\* C8: in unbounded-blocking mode the messages the worker received are exactly
\* the messages whose Enqueue returned, in the same order; none is evicted and
\* no Enqueue fails to insert.
C8_BlockingNeverDrops ==
    (cfg.impl = "queue" /\ cfg.MaxBufferSize <= 0) =>
        /\ WorkerReceived = AcceptedIds
        /\ hist.evicted = {}
        /\ ErrEnqueueFailed \notin hist.logResults
        /\ \A p \in Callers : pc[p] \notin {"enq_lock", "enq_drop", "enq_retry"}

C8_Witness ==
    /\ cfg.impl = "queue" /\ cfg.MaxBufferSize <= 0
    /\ ~closed
    /\ Len(hist.accepted) >= 2
    /\ \E p \in Callers : pc[p] = "enq_send"

\* C9: in bounded mode an Enqueue(m) that finds the queue full, with no
\* receive of the worker in between, returns success and leaves the queue as
\* it was without its oldest element, followed by m.
C9_EvictsOldest ==
    hist.evict.stage = "done" =>
        /\ Len(hist.evict.before) = cfg.capacity
        /\ buffer = Append(Tail(hist.evict.before), hist.evict.msg)
        /\ Head(hist.evict.before).id \in hist.evicted
        /\ hist.evict.msg.id \in Range(AcceptedIds)

C9_Witness ==
    /\ hist.evict.stage = "done"
    /\ cfg.capacity = 2
    /\ Len(buffer) = 2
    /\ buffer[2] = hist.evict.msg
    /\ buffer[1] = hist.evict.before[2]

\* C10: in bounded mode an Enqueue never waits for the worker or the sink: no
\* Enqueue is ever blocked on l.mu while the Close() that holds l.mu waits
\* for the worker to finish draining.
C10_BoundedEnqueueNeverWaits ==
    \A p \in Callers :
        pc[p] = "enq_lock" =>
            ~(\E q \in Callers : mu = q /\ pc[q] = "close_wait" /\ wpc # "done")

\* the texts of the messages with the given ids, as they were enqueued
TextsOf(ids) == [j \in 1..Len(ids) |-> hist.accepted[TextOf(ids[j])].text]

\* texts joined by the separator
RECURSIVE JoinNL(_)
JoinNL(ts) == IF ts = <<>> THEN <<>>
              ELSE IF Len(ts) = 1 THEN Head(ts)
              ELSE Head(ts) \o <<NL>> \o JoinNL(Tail(ts))

\* the running length: rune count plus one separator for every text
RECURSIVE RunningLength(_)
RunningLength(ts) == IF ts = <<>> THEN 0
                     ELSE Len(Head(ts)) + 1 + RunningLength(Tail(ts))

\* C11: in Batching mode, when the worker appends a message and the running
\* length (rune count plus one separator per batched message) reaches or
\* exceeds the maximum, that same step of the worker, before its next receive,
\* makes exactly one sink call whose text is the batched messages joined by
\* newline without a trailing separator, and empties the batch; below the
\* maximum the message is only added and nothing is sent.
C11_BatchFlushBySize ==
    [][(Batching /\ wpc \in {"add", "drain_add"} /\ wpc' # wpc) =>
          LET ids == Append(batchIds, wlog.id)
          IN  IF RunningLength(TextsOf(ids)) >= cfg.maxLogMessageChars
              THEN /\ Len(sent') = Len(sent) + 1
                   /\ SubSeq(sent', 1, Len(sent)) = sent
                   /\ Last(sent').text = JoinNL(TextsOf(ids))
                   /\ Last(sent').ids = ids
                   /\ batch' = <<>> /\ batchRuneCount' = 0 /\ batchIds' = <<>>
                   /\ wpc' \in {"select", "drain"}
                   /\ buffer' = buffer
              ELSE /\ sent' = sent
                   /\ batchIds' = ids
                   /\ batchRuneCount' = RunningLength(TextsOf(ids))]_vars

C11_Witness ==
    /\ Batching /\ ~closed
    /\ wpc = "select" /\ batch = <<>>
    /\ \E i \in 1..Len(sent) :
          /\ Len(sent[i].ids) = 2
          /\ RunningLength(TextsOf(sent[i].ids)) >= cfg.maxLogMessageChars
          /\ RunningLength(TextsOf(<<sent[i].ids[1]>>)) < cfg.maxLogMessageChars

\* the ids a run can give to messages: at most two chunks for a Log call
MsgIds == 1..(2 * MaxLogs)

\* C12: in Batching mode, under fair scheduling of the worker and its ticker,
\* every message that is in the batch is eventually passed to the sink, unless
\* the pipeline is closed first; a batch below the size threshold is sent by
\* the ticker case.
C12_BatchFlushByTimer ==
    \A id \in MsgIds :
        (id \in Range(batchIds)) ~> (id \in Range(SentIds) \/ closed)

C12_Witness ==
    /\ Batching /\ ~closed
    /\ \E i \in 1..Len(sent) :
          /\ Len(sent[i].ids) = 1
          /\ RunningLength(TextsOf(sent[i].ids)) < cfg.maxLogMessageChars

\* C13: every Append of a non-terminal fragment returns (none, false): the
\* table holds the concatenation of the group's fragments so far and Log
\* returns success with nothing enqueued; the Append of the terminal fragment
\* returns the record whose payload is the concatenation of all the group's
\* fragments in arrival order, with its fragment metadata cleared, removes the
\* group from the table, and Log goes on with that payload: it enqueues it,
\* unless a configured filter, applied to that payload, drops it.
C13_ReassemblyCompleteness ==
    [][\A g \in GroupIDs :
          hist'.nappends[g] = hist.nappends[g] + 1 =>
              LET payload == Flatten(hist'.frags[g])
              IN  IF ~hist'.fragLast[g]
                  THEN /\ g \in DOMAIN logs' /\ logs'[g] = payload
                       /\ hist'.enqSeq = hist.enqSeq
                       /\ hist'.logResults = hist.logResults \cup {Nil}
                       /\ UNCHANGED <<pc, local, buffer, workerVars>>
                  ELSE /\ g \notin DOMAIN logs'
                       /\ hist'.filter.n = hist.filter.n + 1 =>
                              hist'.filter.line = payload
                       /\ hist'.enqSeq = hist.enqSeq + 1
                             \/ (/\ hist'.filter.n = hist.filter.n + 1
                                 /\ hist'.enqSeq = hist.enqSeq)
                       /\ hist'.enqSeq = hist.enqSeq + 1 =>
                           \E p \in Callers :
                             /\ pc[p] = "idle" /\ pc'[p] # "idle"
                             /\ local'[p].log = [Line |-> payload,
                                                 PLogMetaData |-> NoMeta]
                             /\ local'[p].msg.text \o local'[p].runes
                                    = payload]_vars

C13_Witness ==
    /\ \E g \in GroupIDs : hist.fragLast[g] /\ Len(hist.frags[g]) >= 2
                              /\ g \notin DOMAIN logs
    /\ \E i \in 1..Len(sent) : sent[i].text = <<"a", "b">>

\* the tags of a parsed template
TagsOf(parts) == {parts[i].val : i \in {j \in 1..Len(parts) : parts[j].kind = "tag"}}

\* the tags that are neither built-in tags nor keys of the attribute mapping
UnknownTags(x) ==
    {t \in TagsOf(NewTemplate(x.template).parts) :
        t \notin {<<b>> : b \in BuiltinTagNames} /\ t \notin DOMAIN x.attrs}

\* C14: construction of the formatter fails with the unknown-tag error exactly
\* when the (well-formed) template has a tag that is neither built-in nor a key
\* of the attribute mapping, and then no record is ever formatted; when
\* construction succeeded the template has no such tag and no Format call, for
\* any record, hits an unknown tag.
C14_UnknownTagRejected ==
    LET wellFormed == NewTemplate(fmt.template).err = Nil
    IN  /\ fmt.state = "failed" =>
              /\ ~fmt.called /\ fmt.f = <<>>
              /\ fmt.err = ErrUnknownTag <=> (wellFormed /\ UnknownTags(fmt) # {})
        /\ (fmt.state # "new" /\ wellFormed /\ UnknownTags(fmt) # {}) =>
              (fmt.state = "failed" /\ fmt.err = ErrUnknownTag)
        /\ fmt.state = "ready" =>
              /\ wellFormed /\ UnknownTags(fmt) = {}
              /\ ~fmt.panic

C14_Witness ==
    /\ fmt.state = "failed" /\ fmt.err = ErrUnknownTag
    /\ fmt.template = <<"{", "log", "}", "{", "nope", "}">>
    /\ fmt.attrs # NoAttrs

\* the value of every tag for a record and the static context: the built-in
\* tags as the README lists them, and the attribute mapping for the others
TagValue(x, msg, tag) ==
    CASE tag = <<"log">> -> msg.Line
      [] tag = <<"timestamp">> -> RFC3339(msg.Timestamp)
      [] tag = <<"container_id">> -> ID(Details)
      [] tag = <<"container_full_id">> -> Details.ContainerID
      [] tag = <<"container_name">> -> Name(Details)
      [] tag = <<"image_id">> -> ImageID(Details)
      [] tag = <<"image_full_id">> -> Details.ContainerImageID
      [] tag = <<"image_name">> -> ImageName(Details)
      [] tag = <<"daemon_name">> -> Details.DaemonName
      [] OTHER -> x.attrs[tag]

\* a template given as its pieces, with every {tag} piece replaced by the
\* tag's value and every other piece as it is
Substituted(x, msg, ps) ==
    Flatten([i \in 1..Len(ps) |->
                IF Len(ps[i]) = 3 THEN TagValue(x, msg, <<ps[i][2]>>) ELSE ps[i]])

\* the template is made of {tag} pieces and text only
WellFormedPieces(ps) == \A i \in 1..Len(ps) : ps[i] \notin {<<"{">>, <<"}">>}

\* C18: Format returns the template with every {tag} placeholder replaced by
\* the tag's value for the record and the static context and all other text
\* as it is: "{container_name}: {log}" with container name "web-1" and payload
\* "hello" gives "web-1: hello"; a Format call changes nothing but its result.
C18_FormatSubstitutes ==
    /\ [](fmt.called =>
            /\ WellFormedPieces(fmt.pieces) =>
                  fmt.out = Substituted(fmt, fmt.msg, fmt.pieces)
            /\ (/\ fmt.template = <<"{", "container_name", "}", ": ", "{", "log", "}">>
                /\ fmt.msg.Line = <<"hello">>) =>
                    fmt.out = <<"web-1", ": ", "hello">>)
    /\ [][fmt'.called =>
            /\ fmt'.template = fmt.template /\ fmt'.attrs = fmt.attrs
            /\ fmt'.pieces = fmt.pieces
            /\ fmt'.f = fmt.f /\ fmt'.state = fmt.state
            /\ UNCHANGED <<cfg, closed, buffer, bufferClosed, mu, logs, pc, local,
                           workerVars, clientClosed, hist, panic>>]_vars

C18_Witness ==
    /\ fmt.called
    /\ fmt.template = <<"{", "container_name", "}", ": ", "{", "log", "}">>
    /\ fmt.msg.Line = <<"hello">>
    /\ fmt.out = <<"web-1", ": ", "hello">>

\* C15: in Batching mode Log does not split: the message Log gives to enqueue
\* is the whole formatted record, however long.
C15_SplitOnlyInImmediate ==
    Batching =>
        \A p \in Callers :
            pc[p] \in {"enq_send", "enq_lock", "enq_drop", "enq_retry"} =>
                local[p].msg.text = Format(fmt.f[1], local[p].log).out

\* the pattern occurs in the payload
Matches(payload) == cfg.FilterRegex[1] \in Range(payload)

\* C16: with a filter pattern configured, a Log call whose record (the
\* reassembled one, if it was fragmented) does not match is dropped with
\* success: Log returns nil, nothing is enqueued, and the queue, the worker
\* and the sink are untouched; a record that matches is formatted and Log
\* goes on to enqueue it.
C16_RegexFilter ==
    [][(cfg.FilterRegex # <<>> /\ hist'.filter.n = hist.filter.n + 1) =>
          LET payload == hist'.filter.line
          IN  IF ~Matches(payload)
              THEN /\ hist'.logResults = hist.logResults \cup {Nil}
                   /\ hist'.enqSeq = hist.enqSeq
                   /\ hist'.accepted = hist.accepted
                   /\ UNCHANGED <<pc, local, buffer, workerVars, panic>>
              ELSE /\ hist'.enqSeq = hist.enqSeq + 1
                   /\ \E p \in Callers :
                         /\ pc[p] = "idle" /\ pc'[p] = "enq_lock"
                         /\ local'[p].msg.text \o local'[p].runes
                                = Format(fmt.f[1], Message(payload)).out]_vars

C16_Witness ==
    /\ cfg.FilterRegex = <<"c">>
    /\ hist.filter.n >= 1
    /\ hist.filter.line = <<"a", "b">>
    /\ hist.nlogs >= 2 /\ hist.enqSeq = 0 /\ hist.logResults = {Nil}
    /\ sent = <<>> /\ buffer = <<>>

\* C17: a Send of the worker, failed or not, leaves the worker ready for its
\* next receive with the queue as it was (nothing is put back), and in
\* Batching mode with the batch and its counter empty; the messages of a
\* failed Send are in no later Send.
C17_SendFailureIsNotRetried ==
    /\ [](cfg.impl = "queue" =>
            \A i \in 1..Len(sent) : \A j \in (i + 1)..Len(sent) :
                sent[i].err # Nil =>
                    Range(sent[i].ids) \cap Range(sent[j].ids) = {})
    /\ [][(cfg.impl = "queue" /\ Len(sent') = Len(sent) + 1) =>
            /\ wpc' \in {"select", "drain"}
            /\ buffer' = buffer
            /\ wlog' = NoMsg
            /\ batch' = <<>> /\ batchRuneCount' = 0 /\ batchIds' = <<>>]_vars

C17_Witness ==
    /\ Batching
    /\ Len(sent) >= 2
    /\ sent[1].err = ErrSendFailed /\ Len(sent[1].ids) >= 2
    /\ sent[2].err = Nil
    /\ batch = <<>>

\* C19 as stated: in bounded mode, while a producer is between its eviction
\* and its retry, another producer that is at its insert can take its turn
\* and fill the freed slot, so that the retry fails.
C19_RetryCanBeRaced ==
    \A p \in Callers : \A q \in Callers \ {p} :
        (pc[p] = "enq_retry" /\ pc[q] = "enq_lock") => ENABLED EnqueueSelect(q)

\* C19 amended: in bounded mode the whole Enqueue runs under the lock: from
\* the full queue's eviction to the retry the producer holds it, the queue
\* has a free slot at the retry, and no Enqueue ever returns the
\* enqueue-after-eviction-failed error.
C19_RetryNeverFails ==
    /\ ErrEnqueueFailed \notin hist.logResults
    /\ \A p \in Callers :
          /\ pc[p] \in {"enq_drop", "enq_retry"} => mu = p
          /\ pc[p] = "enq_retry" =>
                /\ Len(buffer) < cfg.capacity
                /\ SelectCases = {"send"}

C19_Witness ==
    /\ \E p \in Callers : \E q \in Callers \ {p} :
          pc[p] = "enq_retry" /\ pc[q] = "enq_lock"
    /\ cfg.capacity = 1 /\ buffer = <<>>
    /\ hist.evicted # {}

\* C20: once any Close() call has returned, the worker has stopped: it makes
\* no further Send, and no Send was made after a close of the sink.
C20_CloseWaitsForWorker ==
    /\ []((cfg.impl = "queue" /\ hist.closeReturned) =>
            /\ wpc = "done"
            /\ \A i \in 1..Len(sent) : ~sent[i].afterClose)
    /\ [][(cfg.impl = "queue" /\ hist.closeReturned) =>
            UNCHANGED workerVars]_vars

C20_Witness ==
    /\ cfg.impl = "queue" /\ hist.closeReturned
    /\ hist.ncloses >= 2
    /\ \A p \in Callers : pc[p] = "idle"
    /\ Len(sent) >= 2
    /\ hist.atClose >= 1 /\ Len(SentIds) > Len(sent)

\* the worker of runBatching is waiting for its next event: at the select of
\* the main loop or at the receive of the deferred drain
BatchWaiting == Batching /\ wpc \in {"select", "drain"}

\* C21: in Batching mode with a maximum of at least 1, whenever the worker is
\* waiting for its next event the running length is strictly below the
\* maximum and equals the rune count of the batch buffer, which is the
\* messages held plus one separator each; a running length that reached the
\* maximum was flushed before the next message is taken.
C21_BatchInvariant ==
    (BatchWaiting /\ cfg.maxLogMessageChars >= 1) =>
        /\ batchRuneCount < cfg.maxLogMessageChars
        /\ batchRuneCount = Len(batch)
        /\ batchRuneCount = RunningLength(TextsOf(batchIds))
        /\ batch = Flatten([j \in 1..Len(batchIds) |->
                               TextsOf(batchIds)[j] \o <<NL>>])

C21_Witness ==
    /\ BatchWaiting /\ cfg.maxLogMessageChars >= 1
    /\ batchRuneCount = cfg.maxLogMessageChars - 1
    /\ Len(batchIds) = 1
    /\ Len(sent) >= 1

\* ceil(a / b) for b >= 1
CeilDiv(a, b) == (a + b - 1) \div b

\* the formatted message of the call caller p is in
Formatted(p) == Format(fmt.f[1], local[p].log).out

\* caller p is inside l.enqueue, called from Log
InEnqueue(p) == pc[p] \in {"enq_send", "enq_lock", "enq_drop", "enq_retry"}

\* C22: with a maximum N >= 1, the chunks Log passes to enqueue are, in
\* order, consecutive pieces of the formatted message: each has at most N
\* runes, all but the last exactly N, they concatenate to the message, and
\* there are ceil(len/N) of them for a message of more than N runes; a
\* message of at most N runes is passed once, unchanged. When Log returns nil
\* the queue accepted exactly these chunks in this order.
C22_LengthSplit ==
    /\ [](\A p \in Callers :
            (InEnqueue(p) /\ cfg.maxLogMessageChars >= 1) =>
               LET N == cfg.maxLogMessageChars
                   text == Formatted(p)
                   chunks == local[p].chunks
                   k == Len(chunks)
               IN  /\ k >= 1
                   /\ Flatten(chunks) \o local[p].runes = text
                   /\ chunks[k] = local[p].msg.text
                   /\ \A i \in 1..k : Len(chunks[i]) <= N
                   /\ \A i \in 1..(k - 1) : Len(chunks[i]) = N
                   /\ local[p].runes # <<>> => Len(chunks[k]) = N
                   /\ Len(text) <= N => chunks = <<text>>
                   /\ (Len(text) > N /\ local[p].runes = <<>>)
                         => k = CeilDiv(Len(text), N))
    /\ [][\A p \in Callers :
            (InEnqueue(p) /\ pc'[p] = "idle" /\ cfg.maxLogMessageChars >= 1
             /\ Nil \in hist'.logResults \ hist.logResults) =>
               LET k == Len(local[p].chunks)
                   n == Len(hist'.accepted)
               IN  /\ n >= k
                   /\ [i \in 1..k |-> hist'.accepted[n - k + i].text]
                         = local[p].chunks]_vars

C22_Witness ==
    \E p \in Callers :
        /\ InEnqueue(p) /\ cfg.maxLogMessageChars = 2
        /\ Len(Formatted(p)) = 5
        /\ Len(local[p].chunks) = 3 /\ local[p].runes = <<>>
        /\ Len(hist.accepted) >= 2

\* C30: Log's split loop terminates for every maximum WithMaxLogMessageChars
\* accepts, zero and negative ones included: Log does not abort in the loop,
\* and every chunk it takes while runes remain is non-empty, so that the
\* remaining runes get fewer with every turn of the loop.
C30_SplitLoopTerminates ==
    /\ panic # ErrSliceBounds
    /\ \A p \in Callers :
          InEnqueue(p) =>
             /\ Flatten(local[p].chunks) \o local[p].runes = Formatted(p)
             /\ local[p].runes # <<>> => Len(local[p].msg.text) >= 1

\* the number of messages the worker has taken from the queue: those enqueue
\* put there less those still there and those evicted
NumReceived == Len(hist.accepted) - Len(buffer) - Cardinality(hist.evicted)

\* C23: in Batching mode a flush on a batch that holds no message sends
\* nothing: a timer tick and the shutdown flush leave the sink calls as they
\* are when the batch is empty, every sink call carries at least one message,
\* and the sink calls are never more than the messages the worker received.
C23_EmptyFlushIsNoOp ==
    /\ [](Batching =>
            /\ \A i \in 1..Len(sent) : Len(sent[i].ids) >= 1
            /\ Len(sent) <= NumReceived)
    /\ [][(Batching /\ batch = <<>> /\ wpc \in {"select", "deferred_flush"})
             => sent' = sent]_vars

C23_Witness ==
    /\ Batching /\ wpc = "drain"
    /\ Len(sent) = 1 /\ batch = <<>>
    /\ NumReceived = 2

\* the groups that have a fragment appended and their terminal fragment not
OpenGroups == {g \in DOMAIN hist.nappends :
                  hist.nappends[g] > 0 /\ ~hist.fragLast[g]}

\* C24: the assembly table has an entry for a group exactly when a fragment
\* of the group has been appended and its terminal fragment has not, and
\* the entry is the concatenation of that group's payloads only; an Append
\* leaves the entries of the other groups as they are, and the Append of a
\* terminal fragment returns the concatenation of its own group's payloads,
\* however the fragments of the groups and the callers interleave.
C24_TableInvariant ==
    /\ [](/\ DOMAIN logs = OpenGroups
          /\ \A g \in DOMAIN logs : logs[g] = Flatten(hist.frags[g]))
    /\ [][\A g \in DOMAIN hist.nappends :
            hist'.nappends[g] = hist.nappends[g] + 1 =>
               /\ \A o \in DOMAIN hist.nappends \ {g} :
                     /\ o \in DOMAIN logs' <=> o \in DOMAIN logs
                     /\ o \in DOMAIN logs => logs'[o] = logs[o]
               /\ hist'.appendResult.last = hist'.fragLast[g]
               /\ hist'.appendResult.line =
                     IF hist'.fragLast[g] THEN Flatten(hist'.frags[g]) ELSE <<>>]_vars

C24_Witness ==
    /\ hist.appendResult.last /\ Len(hist.appendResult.line) = 2
    /\ \E g \in DOMAIN logs : \E o \in DOMAIN hist.nappends \ {g} :
          /\ hist.nappends[g] = 1
          /\ hist.nappends[o] = 2 /\ hist.fragLast[o]
          /\ logs[g] # SubSeq(hist.appendResult.line, 1, 1)
    /\ \E p \in Callers : pc[p] = "append_body"

\* C25: Append called with a record that has no fragment metadata does not
\* return: the call's only step is the panic, taken without the lock, and it
\* leaves the assembly table, the lock and the results of Append unchanged.
C25_MisuseIsFatal ==
    /\ [][\A p \in Callers :
            (pc[p] = "append" /\ local[p].log.PLogMetaData = NoMeta
             /\ pc'[p] # "append") =>
               /\ panic' = ErrNotPartial /\ pc'[p] = "panicked"
               /\ UNCHANGED <<logs, bmu, hist>>]_vars
    /\ [](\A p \in Callers :
            pc[p] = "panicked" => panic = ErrNotPartial /\ bmu # p)

C25_Witness ==
    /\ panic = ErrNotPartial
    /\ DOMAIN logs # {}
    /\ \E p \in Callers : pc[p] = "panicked"
    /\ \E p \in Callers : pc[p] = "append_body" /\ bmu = p

\* how often x occurs in the sequence s
Count(s, x) == Cardinality({i \in 1..Len(s) : s[i] = x})

\* bounded Immediate mode
BoundedImmediate == Immediate /\ cfg.MaxBufferSize > 0

\* C26: in bounded Immediate mode every message an Enqueue accepted is in
\* exactly one place: still queued, held by the worker, passed to the sink
\* once, or evicted; once the worker has ended, Close included, each one was
\* passed to the sink exactly once or was evicted. A message is evicted only
\* by the eviction step of a later Enqueue that had found the queue full,
\* and one Enqueue call evicts at most one message.
C26_LossAccounting ==
    /\ [](BoundedImmediate =>
            /\ \A id \in Range(AcceptedIds) :
                  Count(IdsOf(buffer), id) + Count(SentIds, id)
                  + (IF wlog.id = id THEN 1 ELSE 0)
                  + (IF id \in hist.evicted THEN 1 ELSE 0) = 1
            /\ hist.evicted \subseteq Range(AcceptedIds)
            /\ wpc = "done" =>
                  \A id \in Range(AcceptedIds) :
                      (Count(SentIds, id) = 1) # (id \in hist.evicted))
    /\ [][(BoundedImmediate /\ hist'.evicted # hist.evicted) =>
            /\ hist.evicted \subseteq hist'.evicted
            /\ Cardinality(hist'.evicted \ hist.evicted) = 1
            /\ hist'.evicted \ hist.evicted \subseteq Range(AcceptedIds)
            /\ \E p \in Callers :
                  /\ pc[p] = "enq_drop" /\ pc'[p] = "enq_retry"
                  /\ local[p].msg.id \notin Range(AcceptedIds)]_vars
    /\ [][\A p \in Callers :
            (BoundedImmediate /\ pc[p] # "enq_drop" /\ pc'[p] = "enq_drop") =>
               Len(buffer) = cfg.capacity /\ pc[p] = "enq_lock"]_vars

C26_Witness ==
    /\ BoundedImmediate /\ cfg.capacity = 1
    /\ wpc = "done" /\ hist.closeReturned
    /\ Cardinality(hist.evicted) = 2
    /\ Len(SentIds) = 2
    /\ Len(hist.accepted) = 4

\* C28: in both worker modes every message is passed to the sink at most
\* once, alone or inside one batch, and only messages that Enqueue accepted
\* are passed: the main loop, the deferred drain and the flushes never send
\* a message again.
C28_NoDuplication ==
    cfg.impl = "queue" =>
        /\ \A id \in Range(SentIds) : Count(SentIds, id) = 1
        /\ Range(SentIds) \subseteq Range(AcceptedIds)
        /\ \A id \in Range(SentIds) :
              id \notin Range(batchIds) /\ id \notin Range(IdsOf(buffer))
              /\ id # wlog.id

C28_Witness ==
    /\ Batching /\ wpc = "done" /\ hist.closeReturned
    /\ Len(sent) = 2 /\ Len(SentIds) = 3
    /\ Len(sent[1].ids) = 2 /\ batchIds = <<>>

\* C29: in the logger that closes its client in Close(), no SendMessage is
\* invoked on the client after the client's Close() has been invoked,
\* however Log and Close calls interleave.
C29_NoSendAfterClientClose ==
    cfg.impl = "sync" => \A i \in 1..Len(sent) : ~sent[i].afterClose

\* a step of the worker goroutine
WorkerStep ==
    \/ ImmediateReceive \/ ImmediateSend \/ ImmediateReturn
    \/ ImmediateDrainReceive \/ ImmediateDrainSend
    \/ BatchReceive \/ BatchAdd \/ BatchTick \/ BatchReturn
    \/ BatchDeferredFlush \/ BatchDrainReceive \/ BatchDrainAdd
    \/ WorkerDone

\* caller q is inside Close(), past the isClosed test
Closing(q) == pc[q] \in {"close_buffer", "close_wait", "close_client"}

\* C27: Close() terminates in both queue modes and both worker modes: while
\* a Close() call is under way and every sink Send returns, the call itself
\* or the worker it waits for can take a step, so that under fair
\* scheduling the call returns.
C27_CloseTerminates ==
    \A q \in Callers :
        Closing(q) =>
            ENABLED (CloseBuffer(q) \/ CloseWait(q) \/ CloseClient(q)
                     \/ (wpc # "done" /\ WorkerStep))

\* C31: in Batching mode with maximum N >= 1, every text passed to the sink
\* has at most N runes.
C31_BatchSizeBound ==
    (Batching /\ cfg.maxLogMessageChars >= 1) =>
        \A i \in 1..Len(sent) : Len(sent[i].text) <= cfg.maxLogMessageChars

\* C31, amended: in Batching mode with maximum N >= 1, every text passed to
\* the sink has at most 2N - 1 runes: each message in it has at most N, and
\* the messages before its last one, with one separator each, stay below N.
C31_BatchTextBound ==
    (Batching /\ cfg.maxLogMessageChars >= 1) =>
        \A i \in 1..Len(sent) :
            LET N == cfg.maxLogMessageChars
                ts == TextsOf(sent[i].ids)
            IN  /\ Len(sent[i].text) <= 2 * N - 1
                /\ \A j \in 1..Len(ts) : Len(ts[j]) <= N
                /\ RunningLength(SubSeq(ts, 1, Len(ts) - 1)) < N

C31_Witness ==
    /\ Batching /\ cfg.maxLogMessageChars >= 2
    /\ \E i \in 1..Len(sent) :
          /\ Len(sent[i].text) = 2 * cfg.maxLogMessageChars - 1
          /\ Len(sent[i].ids) = 2

====
